---- MODULE Spec2Model ----
(***************************************************************************)
(* Model of the batch logout run of forceLogoutUsers.js:                   *)
(*   forceLogoutAllUsers(excludedUserIds, immediateLogout)                 *)
(*   robustUpdateUser(uid, properties, retries = 3)                        *)
(* One action is one callback of the Node event loop: the continuation of  *)
(* a remote call (listUsers, updateUser, revokeRefreshTokens), of a timer  *)
(* (setTimeout), or one promise job of the p-limit pool.  Promise jobs run *)
(* before any further remote response or timer is delivered.               *)
(* The POST /force-logout handler of server.js is modelled around the run: *)
(* its two checks before the run starts, its response after the run ends.  *)
(* The single-user tool of immediateLogout.js is modelled the same way, one *)
(* action per continuation of a remote call or timer.                      *)
(***************************************************************************)
EXTENDS Integers, Sequences, FiniteSets, TLC

\* ---------------------------------------------------------------------
\* Bounds of the model
\* ---------------------------------------------------------------------
MaxUsers == 2        \* users in the provider's pool, specification Spec
MaxPages == 2        \* pages the provider splits the pool into
PoolExtra == 1       \* users beyond the concurrency limit, specification SpecPool

\* ---------------------------------------------------------------------
\* Program constants
\* ---------------------------------------------------------------------
HardConcurrency == 5     \* forceLogoutUsers.js:27
SoftConcurrency == 10    \* forceLogoutUsers.js:27
Retries == 3             \* forceLogoutUsers.js:134
BaseDelay == 500         \* forceLogoutUsers.js:143

\* error.message values the provider may fail a call with
ErrMsgs == {"quota exceeded", "internal error"}

\* keys a request may carry in ?key= or in the x-api-key header, "" for none,
\* and values of the API_SECRET environment variable, "" for unset
Keys == {"", "s3cret", "wrong"}
EnvSecrets == {"", "changeme", "s3cret"}

VARIABLES
    \* arguments of the run and the provider's user pool
    immediateLogout,  \* BOOLEAN: hard mode
    excludedSet,      \* set of uids
    pages,            \* sequence of pages, each a sequence of uids
    faulty,           \* uids whose remote calls the provider may fail
    wasDisabled,      \* provider: uid -> disabled flag before the run
    \* server.js: configuration, the request, the response
    logoutEnabled,    \* LOGOUT_ENABLED
    envSecret,        \* process.env.API_SECRET, "" if unset
    queryKey,         \* req.query.key, "" if absent
    headerKey,        \* req.headers['x-api-key'], "" if absent
    httpStatus,       \* status of the response sent, 0 until then
    \* immediateLogout.js
    toolPc,           \* "off" | "start" | the call or timer awaited | "exited"
    toolCalls,        \* remote calls the tool issued, in order
    toolFailed,       \* the step whose error was caught, "" if none
    toolError,        \* message of that error, "" if none
    exitCode,         \* argument of process.exit, -1 until then
    disabled,         \* provider: uid -> disabled flag
    revoked,          \* provider: uid -> refresh tokens revoked
    \* forceLogoutAllUsers: the pagination loop
    pc,               \* "idle" | "listing" | "joining" | "returned" | "thrown"
    nextPageToken,    \* 0 is undefined; token k asks for page k + 1
    fetched,          \* tokens of the listUsers calls answered so far
    report,           \* the returned object, <<>> until then
    listError,        \* message of the error listUsers rejected with, "" if none
    runError,         \* message of the error the run rejected with, "" if none
    \* p-limit
    queue,            \* uids of the queued functions, FIFO
    activeCount,
    kicks,            \* pending "await Promise.resolve()" jobs of enqueue
    \* the per-user function passed to limit()
    st,               \* uid -> position of the function
    attempt,          \* uid -> loop index i of robustUpdateUser
    outcome,          \* uid -> status of the returned object
    issued,           \* uid -> remote calls issued so far, in order
    delays,           \* uid -> backoff delays of the latest robustUpdateUser
    timers,           \* uids whose 100 ms timer is pending, in creation order
    rejected,         \* uid -> remote calls the provider rejected, in order
    messages,         \* uid -> error.message of each rejected attempt of the
                      \* call in progress (robustUpdateUser or revoke), in order
    resolved,         \* uid -> remote calls the provider resolved, in order
    \* counters of the run
    totalProcessed, successCount, failedCount, skippedCount, errors

httpVars == <<logoutEnabled, envSecret, queryKey, headerKey, httpStatus>>
toolVars == <<toolPc, toolCalls, toolFailed, toolError, exitCode>>
envVars == <<immediateLogout, excludedSet, pages, faulty, wasDisabled, httpVars, toolVars>>
provVars == <<disabled, revoked>>
driverVars == <<pc, nextPageToken, fetched, report, listError, runError>>
poolVars == <<queue, activeCount, kicks>>
histVars == <<rejected, messages, resolved>>
taskVars == <<st, attempt, outcome, issued, delays, timers, histVars>>
countVars == <<totalProcessed, successCount, failedCount, skippedCount, errors>>
vars == <<envVars, provVars, driverVars, poolVars, taskVars, countVars>>

\* ---------------------------------------------------------------------
\* Helpers
\* ---------------------------------------------------------------------
Range(s) == {s[i] : i \in 1..Len(s)}

Chunk(lo, hi) == [i \in 1..(hi - lo + 1) |-> lo + i - 1]

RECURSIVE Split(_, _, _)
\* the ways of cutting the uids lo..hi into exactly k consecutive pages
Split(lo, hi, k) ==
    IF k = 1 THEN {<<Chunk(lo, hi)>>}
    ELSE UNION {{<<Chunk(lo, c)>> \o rest : rest \in Split(c + 1, hi, k - 1)} :
                c \in (lo - 1)..hi}

Pagings(n) == UNION {Split(1, n, k) : k \in 1..MaxPages}

\* the uids of the provider's pool, and the same set as the domain of the
\* per-user state
PoolUsers == UNION {Range(pages[p]) : p \in 1..Len(pages)}
Users == DOMAIN st

RECURSIVE Pow2(_)
Pow2(i) == IF i = 0 THEN 1 ELSE 2 * Pow2(i - 1)

\* ---------------------------------------------------------------------
\* forceLogoutAllUsers: set-up
\* ---------------------------------------------------------------------
\* the limits of the two modes exchanged
concurrencySwapped == IF immediateLogout THEN SoftConcurrency ELSE HardConcurrency

\* line 27
concurrency == IF immediateLogout THEN HardConcurrency ELSE SoftConcurrency

Running == {"disable", "disableWait", "revoke", "enable", "enableWait", "delay"}

\* promise jobs pending: remote responses and timers are delivered only
\* when none is
Quiescent == kicks = 0 /\ \A u \in Users : st[u] # "settled"

InitRun ==
    /\ disabled = wasDisabled
    /\ revoked = [u \in PoolUsers |-> FALSE]
    /\ nextPageToken = 0
    /\ fetched = <<>>
    /\ report = <<>>
    /\ listError = ""
    /\ runError = ""
    /\ queue = <<>>
    /\ activeCount = 0
    /\ kicks = 0
    /\ st = [u \in PoolUsers |-> "unseen"]
    /\ attempt = [u \in PoolUsers |-> 0]
    /\ outcome = [u \in PoolUsers |-> "none"]
    /\ issued = [u \in PoolUsers |-> <<>>]
    /\ delays = [u \in PoolUsers |-> <<>>]
    /\ timers = <<>>
    /\ rejected = [u \in PoolUsers |-> <<>>]
    /\ messages = [u \in PoolUsers |-> <<>>]
    /\ resolved = [u \in PoolUsers |-> <<>>]
    /\ totalProcessed = 0
    /\ successCount = 0
    /\ failedCount = 0
    /\ skippedCount = 0
    /\ errors = <<>>

\* immediateLogout.js not run
NoTool ==
    /\ toolPc = "off"
    /\ toolCalls = <<>>
    /\ toolFailed = ""
    /\ toolError = ""
    /\ exitCode = -1

\* forceLogoutAllUsers called directly, no request: the first listUsers
\* call is issued
Direct ==
    /\ NoTool
    /\ pc = "listing"
    /\ logoutEnabled = FALSE
    /\ envSecret = ""
    /\ queryKey = ""
    /\ headerKey = ""
    /\ httpStatus = 0

Init ==
    /\ immediateLogout \in BOOLEAN
    /\ pages \in Pagings(MaxUsers)
    /\ excludedSet \in SUBSET (1..MaxUsers)
    /\ faulty = 1..MaxUsers
    /\ wasDisabled = [u \in PoolUsers |-> FALSE]
    /\ Direct
    /\ InitRun

\* pools of more users than the mode's concurrency limit, in one page or in
\* two; the provider may fail the calls of the first user
InitPool ==
    /\ immediateLogout \in BOOLEAN
    /\ excludedSet = {}
    /\ LET n == concurrency + PoolExtra
       IN pages \in {<<Chunk(1, n)>>,
                     <<Chunk(1, concurrency), Chunk(concurrency + 1, n)>>}
    /\ faulty = {1}
    /\ wasDisabled = [u \in PoolUsers |-> FALSE]
    /\ Direct
    /\ InitRun

\* ---------------------------------------------------------------------
\* The function passed to limit(), lines 45-95
\* ---------------------------------------------------------------------
\* the exclusion test missing
IsExcludedNever(u) == FALSE

\* line 49: excludedSet.has(userRecord.uid)
IsExcluded(u) == u \in excludedSet

\* the revoke issued together with the first disable attempt, not awaiting it
RunTaskNoAwait(u, base) ==
    /\ totalProcessed' = totalProcessed + 1
    /\ IF IsExcluded(u)
       THEN /\ skippedCount' = skippedCount + 1
            /\ outcome' = [outcome EXCEPT ![u] = "skipped"]
            /\ st' = [base EXCEPT ![u] = "settled"]
            /\ UNCHANGED <<attempt, issued, delays, timers>>
       ELSE IF immediateLogout
       THEN /\ st' = [base EXCEPT ![u] = "disable"]
            /\ attempt' = [attempt EXCEPT ![u] = 0]
            /\ delays' = [delays EXCEPT ![u] = <<>>]
            /\ issued' = [issued EXCEPT ![u] = @ \o <<"disable", "revoke">>]
            /\ UNCHANGED <<skippedCount, outcome, timers>>
       ELSE /\ st' = [base EXCEPT ![u] = "delay"]
            /\ timers' = Append(timers, u)
            /\ UNCHANGED <<skippedCount, outcome, attempt, issued, delays>>
    /\ UNCHANGED <<successCount, failedCount, errors, histVars>>

\* lines 46-70: from the start of the function to its first await; base is
\* st as the caller leaves it
RunTask(u, base) ==
    /\ totalProcessed' = totalProcessed + 1
    /\ IF IsExcluded(u)
       THEN /\ skippedCount' = skippedCount + 1
            /\ outcome' = [outcome EXCEPT ![u] = "skipped"]
            /\ st' = [base EXCEPT ![u] = "settled"]
            /\ UNCHANGED <<attempt, issued, delays, timers>>
       ELSE IF immediateLogout
       THEN \* robustUpdateUser(uid, {disabled: true}), i = 0
            /\ st' = [base EXCEPT ![u] = "disable"]
            /\ attempt' = [attempt EXCEPT ![u] = 0]
            /\ delays' = [delays EXCEPT ![u] = <<>>]
            /\ issued' = [issued EXCEPT ![u] = Append(@, "disable")]
            /\ UNCHANGED <<skippedCount, outcome, timers>>
       ELSE \* setTimeout(resolve, 100)
            /\ st' = [base EXCEPT ![u] = "delay"]
            /\ timers' = Append(timers, u)
            /\ UNCHANGED <<skippedCount, outcome, attempt, issued, delays>>
    /\ UNCHANGED <<successCount, failedCount, errors, histVars>>

\* successCount written from a value read before any task had finished
SucceedLostUpdate(u) ==
    /\ successCount' = 1
    /\ outcome' = [outcome EXCEPT ![u] = "success"]
    /\ st' = [st EXCEPT ![u] = "settled"]
    /\ UNCHANGED <<failedCount, errors>>

\* lines 72-78
Succeed(u) ==
    /\ successCount' = successCount + 1
    /\ outcome' = [outcome EXCEPT ![u] = "success"]
    /\ st' = [st EXCEPT ![u] = "settled"]
    /\ UNCHANGED <<failedCount, errors>>

\* the catch block without failedCount++
CatchUncounted(u, msg) ==
    /\ failedCount' = failedCount
    /\ errors' = Append(errors, [uid |-> u, error |-> msg])
    /\ outcome' = [outcome EXCEPT ![u] = "failed"]
    /\ st' = [st EXCEPT ![u] = "settled"]
    /\ UNCHANGED successCount

\* the catch block without errors.push
CatchNoEntry(u, msg) ==
    /\ failedCount' = failedCount + 1
    /\ errors' = errors
    /\ outcome' = [outcome EXCEPT ![u] = "failed"]
    /\ st' = [st EXCEPT ![u] = "settled"]
    /\ UNCHANGED successCount

\* the catch block counting the failure twice
CatchTwice(u, msg) ==
    /\ failedCount' = failedCount + 2
    /\ errors' = Append(errors, [uid |-> u, error |-> msg])
    /\ outcome' = [outcome EXCEPT ![u] = "failed"]
    /\ st' = [st EXCEPT ![u] = "settled"]
    /\ UNCHANGED successCount

\* no try/catch: the function rejects and records nothing
CatchRejects(u, msg) ==
    /\ outcome' = [outcome EXCEPT ![u] = "rejected"]
    /\ st' = [st EXCEPT ![u] = "settled"]
    /\ UNCHANGED <<successCount, failedCount, errors>>

\* lines 79-93: the catch block
Catch(u, msg) ==
    /\ failedCount' = failedCount + 1
    /\ errors' = Append(errors, [uid |-> u, error |-> msg])
    /\ outcome' = [outcome EXCEPT ![u] = "failed"]
    /\ st' = [st EXCEPT ![u] = "settled"]
    /\ UNCHANGED successCount

\* line 68: the 100 ms timer of soft mode fires; line 69 issues the revoke.
\* Timers of one duration fire in the order they were created.
SoftDelayDone(u) ==
    /\ Quiescent
    /\ st[u] = "delay"
    /\ timers # <<>> /\ u = Head(timers)
    /\ timers' = Tail(timers)
    /\ st' = [st EXCEPT ![u] = "revoke"]
    /\ issued' = [issued EXCEPT ![u] = Append(@, "revoke")]
    /\ UNCHANGED <<envVars, provVars, driverVars, poolVars, attempt, outcome,
                   delays, histVars, countVars>>

\* lines 61/69: revokeRefreshTokens resolves
RevokeOk(u) ==
    /\ Quiescent
    /\ st[u] = "revoke"
    /\ revoked' = [revoked EXCEPT ![u] = TRUE]
    /\ resolved' = [resolved EXCEPT ![u] = Append(@, "revoke")]
    /\ IF immediateLogout
       THEN \* line 64: robustUpdateUser(uid, {disabled: false}), i = 0
            /\ st' = [st EXCEPT ![u] = "enable"]
            /\ attempt' = [attempt EXCEPT ![u] = 0]
            /\ delays' = [delays EXCEPT ![u] = <<>>]
            /\ issued' = [issued EXCEPT ![u] = Append(@, "enable")]
            /\ UNCHANGED <<outcome, successCount, failedCount, errors>>
       ELSE /\ Succeed(u)
            /\ UNCHANGED <<attempt, delays, issued>>
    /\ UNCHANGED <<envVars, disabled, driverVars, poolVars, totalProcessed,
                   skippedCount, timers, rejected, messages>>

\* a rejected revoke called again, up to the number of retries
RevokeFailsRetry(u) ==
    /\ Quiescent
    /\ st[u] = "revoke"
    /\ u \in faulty
    /\ rejected' = [rejected EXCEPT ![u] = Append(@, "revoke")]
    /\ \E msg \in ErrMsgs :
          /\ messages' = [messages EXCEPT ![u] = Append(@, msg)]
          /\ IF Len(SelectSeq(issued[u], LAMBDA c : c = "revoke")) >= Retries
             THEN Catch(u, msg) /\ UNCHANGED issued
             ELSE /\ issued' = [issued EXCEPT ![u] = Append(@, "revoke")]
                  /\ UNCHANGED <<st, outcome, successCount, failedCount, errors>>
    /\ UNCHANGED <<envVars, provVars, driverVars, poolVars, attempt,
                   delays, totalProcessed, skippedCount, timers, resolved>>

\* lines 61/69: revokeRefreshTokens rejects; control goes to line 79
RevokeFails(u) ==
    /\ Quiescent
    /\ st[u] = "revoke"
    /\ u \in faulty
    /\ rejected' = [rejected EXCEPT ![u] = Append(@, "revoke")]
    /\ \E msg \in ErrMsgs :
          /\ messages' = [messages EXCEPT ![u] = Append(@, msg)]
          /\ Catch(u, msg)
    /\ UNCHANGED <<envVars, provVars, driverVars, poolVars, attempt, issued,
                   delays, totalProcessed, skippedCount, timers, resolved>>

\* ---------------------------------------------------------------------
\* robustUpdateUser, lines 134-147
\* ---------------------------------------------------------------------
\* the last-retry test off by one
LastRetryOffByOne(i) == i = Retries

\* line 140: i === retries - 1
LastRetry(i) == i = Retries - 1

\* a constant delay in place of the exponential one
BackoffFlat(i) == BaseDelay

\* line 143: 500 * Math.pow(2, i)
Backoff(i) == BaseDelay * Pow2(i)

\* the re-enable putting back the flag the account had before the run
UpdateUserOkRestores(u) ==
    /\ Quiescent
    /\ st[u] \in {"disable", "enable"}
    /\ disabled' = [disabled EXCEPT ![u] = IF st[u] = "disable" THEN TRUE
                                                                ELSE wasDisabled[u]]
    /\ resolved' = [resolved EXCEPT ![u] = Append(@, st[u])]
    /\ messages' = [messages EXCEPT ![u] = <<>>]
    /\ IF st[u] = "disable"
       THEN /\ st' = [st EXCEPT ![u] = "revoke"]
            /\ issued' = [issued EXCEPT ![u] = Append(@, "revoke")]
            /\ UNCHANGED <<outcome, successCount, failedCount, errors>>
       ELSE /\ Succeed(u)
            /\ UNCHANGED issued
    /\ UNCHANGED <<envVars, revoked, driverVars, poolVars, attempt, delays,
                   totalProcessed, skippedCount, timers, rejected>>

\* line 137-138: updateUser resolves, robustUpdateUser returns
UpdateUserOk(u) ==
    /\ Quiescent
    /\ st[u] \in {"disable", "enable"}
    /\ disabled' = [disabled EXCEPT ![u] = (st[u] = "disable")]
    /\ resolved' = [resolved EXCEPT ![u] = Append(@, st[u])]
    /\ messages' = [messages EXCEPT ![u] = <<>>]
    /\ IF st[u] = "disable"
       THEN \* line 61
            /\ st' = [st EXCEPT ![u] = "revoke"]
            /\ issued' = [issued EXCEPT ![u] = Append(@, "revoke")]
            /\ UNCHANGED <<outcome, successCount, failedCount, errors>>
       ELSE /\ Succeed(u)
            /\ UNCHANGED issued
    /\ UNCHANGED <<envVars, revoked, driverVars, poolVars, attempt, delays,
                   totalProcessed, skippedCount, timers, rejected>>

\* the error of the first attempt of this robustUpdateUser thrown
ThrownFirst(u, msg) ==
    IF messages[u] = <<>> THEN msg ELSE messages[u][1]

\* line 140: throw error, the error caught at line 139 in this iteration
Thrown(u, msg) == msg

\* lines 139-144: updateUser rejects
UpdateUserFails(u) ==
    /\ Quiescent
    /\ st[u] \in {"disable", "enable"}
    /\ u \in faulty
    /\ rejected' = [rejected EXCEPT ![u] = Append(@, st[u])]
    /\ \E msg \in ErrMsgs :
          /\ messages' = [messages EXCEPT ![u] = Append(@, msg)]
          /\ IF LastRetry(attempt[u])
             THEN \* caught at line 79
                  /\ Catch(u, Thrown(u, msg))
                  /\ UNCHANGED delays
             ELSE /\ st' = [st EXCEPT ![u] = IF @ = "disable" THEN "disableWait"
                                                              ELSE "enableWait"]
                  /\ delays' = [delays EXCEPT ![u] = Append(@, Backoff(attempt[u]))]
                  /\ UNCHANGED <<outcome, successCount, failedCount, errors>>
    /\ UNCHANGED <<envVars, provVars, driverVars, poolVars, attempt, issued,
                   totalProcessed, skippedCount, timers, resolved>>

\* line 144: the backoff timer fires; the loop runs updateUser again
BackoffDone(u) ==
    /\ Quiescent
    /\ st[u] \in {"disableWait", "enableWait"}
    /\ attempt' = [attempt EXCEPT ![u] = @ + 1]
    /\ st' = [st EXCEPT ![u] = IF @ = "disableWait" THEN "disable" ELSE "enable"]
    /\ issued' = [issued EXCEPT ![u] =
                     Append(@, IF st[u] = "disableWait" THEN "disable" ELSE "enable")]
    /\ UNCHANGED <<envVars, provVars, driverVars, poolVars, outcome, delays,
                   countVars, timers, histVars>>

\* ---------------------------------------------------------------------
\* p-limit, created at line 28 and used at line 45
\* ---------------------------------------------------------------------
\* enqueue's job: start the head of the queue if a slot is free
Kick ==
    /\ kicks > 0
    /\ kicks' = kicks - 1
    /\ IF activeCount < concurrency /\ queue # <<>>
       THEN /\ activeCount' = activeCount + 1
            /\ queue' = Tail(queue)
            /\ RunTask(Head(queue), st)
       ELSE UNCHANGED <<activeCount, queue, taskVars, countVars>>
    /\ UNCHANGED <<envVars, provVars, driverVars>>

\* next(): the function of u has returned; free its slot and start the head
\* of the queue
TaskNext(u) ==
    /\ st[u] = "settled"
    /\ IF queue # <<>>
       THEN /\ activeCount' = (activeCount - 1) + 1
            /\ queue' = Tail(queue)
            /\ RunTask(Head(queue), [st EXCEPT ![u] = "done"])
       ELSE /\ activeCount' = activeCount - 1
            /\ st' = [st EXCEPT ![u] = "done"]
            /\ UNCHANGED <<queue, attempt, outcome, issued, delays, timers, histVars,
                           countVars>>
    /\ UNCHANGED <<envVars, provVars, driverVars, kicks>>

\* ---------------------------------------------------------------------
\* forceLogoutAllUsers: the pagination loop, lines 36-128
\* ---------------------------------------------------------------------
\* the page listUsers(1000, token) answers with, and its pageToken
PageOf(token) == pages[token + 1]
TokenAfter(token) == IF token + 1 < Len(pages) THEN token + 1 ELSE 0

\* the loop left after the first page
LoopAgainNever(token) == FALSE

\* line 104: while (nextPageToken)
LoopAgain(token) == token # 0

\* the driver recording the skip of an excluded user itself and handing
\* only the other users of the page to limit()
ListUsersOkSkipsInline ==
    /\ Quiescent
    /\ pc = "listing"
    /\ LET page == PageOf(nextPageToken)
           token == TokenAfter(nextPageToken)
           work == SelectSeq(page, LAMBDA u : ~IsExcluded(u))
           skips == {u \in Range(page) : IsExcluded(u)}
       IN /\ queue' = queue \o work
          /\ kicks' = kicks + Len(work)
          /\ st' = [u \in Users |-> IF u \in Range(work) THEN "queued" ELSE st[u]]
          /\ outcome' = [u \in Users |-> IF u \in skips THEN "skipped" ELSE outcome[u]]
          /\ skippedCount' = skippedCount + Cardinality(skips)
          /\ totalProcessed' = totalProcessed + Cardinality(skips)
          /\ fetched' = Append(fetched, nextPageToken)
          /\ nextPageToken' = token
          /\ pc' = IF LoopAgain(token) THEN "listing" ELSE "joining"
    /\ UNCHANGED <<envVars, provVars, report, listError, runError, activeCount,
                   attempt, issued, delays, timers, histVars, successCount,
                   failedCount, errors>>

\* the loop awaiting the promises of a page before it fetches the next one:
\* the response is taken up only when no task is queued or executing
ListUsersOkAwaitsBatch ==
    /\ Quiescent
    /\ pc = "listing"
    /\ \A u \in Users : st[u] \in {"unseen", "done"}
    /\ LET page == PageOf(nextPageToken)
           token == TokenAfter(nextPageToken)
       IN /\ queue' = queue \o page
          /\ kicks' = kicks + Len(page)
          /\ st' = [u \in Users |-> IF u \in Range(page) THEN "queued" ELSE st[u]]
          /\ fetched' = Append(fetched, nextPageToken)
          /\ nextPageToken' = token
          /\ pc' = IF LoopAgain(token) THEN "listing" ELSE "joining"
    /\ UNCHANGED <<envVars, provVars, report, listError, runError, activeCount,
                   attempt, outcome, issued, delays, timers, histVars, countVars>>

\* lines 39-104: listUsers resolves; every user of the page goes to limit()
ListUsersOk ==
    /\ Quiescent
    /\ pc = "listing"
    /\ LET page == PageOf(nextPageToken)
           token == TokenAfter(nextPageToken)
       IN /\ queue' = queue \o page
          /\ kicks' = kicks + Len(page)
          /\ st' = [u \in Users |-> IF u \in Range(page) THEN "queued" ELSE st[u]]
          /\ fetched' = Append(fetched, nextPageToken)
          /\ nextPageToken' = token
          /\ pc' = IF LoopAgain(token) THEN "listing" ELSE "joining"
    /\ UNCHANGED <<envVars, provVars, report, listError, runError, activeCount,
                   attempt, outcome, issued, delays, timers, histVars, countVars>>

\* the run failing with an error of its own in place of the caught one
RethrownWrapped(msg) == "force logout failed"

\* lines 125-127: catch (error) { ...; throw error }
Rethrown(msg) == msg

\* the rejection handled only once no task is queued or executing
ListUsersFailsDrains ==
    /\ Quiescent
    /\ pc = "listing"
    /\ \A u \in Users : st[u] \in {"unseen", "done"}
    /\ pc' = "thrown"
    /\ \E msg \in ErrMsgs :
          /\ listError' = msg
          /\ runError' = Rethrown(msg)
    /\ UNCHANGED <<envVars, provVars, nextPageToken, fetched, report, poolVars,
                   taskVars, countVars>>

\* lines 39, 125-128: listUsers rejects; the run rethrows
ListUsersFails ==
    /\ Quiescent
    /\ pc = "listing"
    /\ pc' = "thrown"
    /\ \E msg \in ErrMsgs :
          /\ listError' = msg
          /\ runError' = Rethrown(msg)
    /\ UNCHANGED <<envVars, provVars, nextPageToken, fetched, report, poolVars,
                   taskVars, countVars>>

\* the report returned without awaiting the promises
JoinDoneNoAwait == TRUE

\* line 109: every promise of allPromises is resolved and its pool slot freed
JoinDone == \A u \in Users : st[u] \in {"unseen", "done"}

\* lines 109-123: Promise.all resolves; the report is returned
Return ==
    /\ pc = "joining"
    /\ kicks = 0
    /\ JoinDone
    /\ pc' = "returned"
    /\ report' = [success |-> successCount, failed |-> failedCount,
                  skipped |-> skippedCount, total |-> totalProcessed,
                  errors |-> errors]
    /\ UNCHANGED <<envVars, provVars, nextPageToken, fetched, listError, runError,
                   poolVars, taskVars, countVars>>

Next ==
    \/ ListUsersOk
    \/ ListUsersFails
    \/ Kick
    \/ Return
    \/ \E u \in Users : TaskNext(u)
    \/ \E u \in Users : SoftDelayDone(u)
    \/ \E u \in Users : RevokeOk(u)
    \/ \E u \in Users : RevokeFails(u)
    \/ \E u \in Users : UpdateUserOk(u)
    \/ \E u \in Users : UpdateUserFails(u)
    \/ \E u \in Users : BackoffDone(u)

Spec == Init /\ [][Next]_vars

\* ---------------------------------------------------------------------
\* server.js: POST /force-logout
\* ---------------------------------------------------------------------
\* line 22: process.env.API_SECRET || 'changeme'
API_SECRET == IF envSecret = "" THEN "changeme" ELSE envSecret

\* line 56: req.query.key || req.headers['x-api-key']
providedKey == IF queryKey # "" THEN queryKey ELSE headerKey

\* the key never checked
KeyRejectedNever == FALSE

\* line 57
KeyRejected == API_SECRET # "changeme" /\ providedKey # API_SECRET

\* lines 45-88: the handler up to its await of forceLogoutAllUsers, whose
\* first listUsers call is issued
ForceLogoutRequest ==
    /\ pc = "idle"
    /\ httpStatus = 0
    /\ IF ~logoutEnabled
       THEN httpStatus' = 403 /\ UNCHANGED pc
       ELSE IF KeyRejected
            THEN httpStatus' = 401 /\ UNCHANGED pc
            ELSE pc' = "listing" /\ UNCHANGED httpStatus
    /\ UNCHANGED <<immediateLogout, excludedSet, pages, faulty, wasDisabled, toolVars, logoutEnabled,
                   envSecret, queryKey, headerKey, provVars, nextPageToken,
                   fetched, report, listError, runError, poolVars, taskVars,
                   countVars>>

\* lines 88-103: the awaited run returned its report, or threw
HttpRespond ==
    /\ httpStatus = 0
    /\ pc \in {"returned", "thrown"}
    /\ httpStatus' = IF pc = "returned" THEN 200 ELSE 500
    /\ UNCHANGED <<immediateLogout, excludedSet, pages, faulty, wasDisabled, toolVars, logoutEnabled,
                   envSecret, queryKey, headerKey, provVars, driverVars,
                   poolVars, taskVars, countVars>>

\* one request to a server of any configuration; one user in the pool
InitHttp ==
    /\ immediateLogout \in BOOLEAN
    /\ excludedSet = {}
    /\ pages = <<<<1>>>>
    /\ faulty = {1}
    /\ wasDisabled = [u \in PoolUsers |-> FALSE]
    /\ NoTool
    /\ pc = "idle"
    /\ logoutEnabled \in BOOLEAN
    /\ envSecret \in EnvSecrets
    /\ queryKey \in Keys
    /\ headerKey \in Keys
    /\ httpStatus = 0
    /\ InitRun

NextHttp ==
    \/ ForceLogoutRequest
    \/ HttpRespond
    \/ Next

SpecHttp == InitHttp /\ [][NextHttp]_vars

\* ---------------------------------------------------------------------
\* immediateLogout.js: immediateLogout(userId)
\* ---------------------------------------------------------------------
\* line 104: the uid given on the command line
userId == 1

\* the steps of lines 53-75 whose rejection the catch at line 86 handles
ToolSteps == {"disable", "revoke", "enable", "verify"}

\* the batch run left alone by the tool
ToolFrame ==
    UNCHANGED <<immediateLogout, excludedSet, pages, faulty, wasDisabled, httpVars,
                driverVars, poolVars, taskVars, countVars>>

\* lines 86-93: the catch block up to its await of the re-enable call
ToolCatch(step, msg) ==
    /\ toolFailed' = step
    /\ toolError' = msg
    /\ toolCalls' = Append(toolCalls, "enable")
    /\ toolPc' = "recover"
    /\ UNCHANGED exitCode

\* lines 8-28: initializeFirebase returns and getUser is issued, or it throws
ToolStart ==
    /\ toolPc = "start"
    /\ \/ /\ toolPc' = "lookup"
          /\ toolCalls' = Append(toolCalls, "getUser")
          /\ UNCHANGED <<toolFailed, toolError, exitCode>>
       \/ \E msg \in ErrMsgs : ToolCatch("init", msg)
    /\ UNCHANGED provVars
    /\ ToolFrame

\* lines 28-49: getUser resolves; the 3 s timer is set
ToolLookupOk ==
    /\ toolPc = "lookup"
    /\ toolPc' = "wait"
    /\ UNCHANGED <<toolCalls, toolFailed, toolError, exitCode, provVars>>
    /\ ToolFrame

\* lines 35-38: getUser rejects; process.exit(1)
ToolLookupFails ==
    /\ toolPc = "lookup"
    /\ userId \in faulty
    /\ \E msg \in ErrMsgs : toolError' = msg
    /\ toolFailed' = "lookup"
    /\ toolPc' = "exited"
    /\ exitCode' = 1
    /\ UNCHANGED <<toolCalls, provVars>>
    /\ ToolFrame

\* lines 49-53: the 3 s timer fires; updateUser(userId, {disabled: true})
ToolProceed ==
    /\ toolPc = "wait"
    /\ toolPc' = "disable"
    /\ toolCalls' = Append(toolCalls, "disable")
    /\ UNCHANGED <<toolFailed, toolError, exitCode, provVars>>
    /\ ToolFrame

\* lines 53-59: the disable resolves; the 500 ms timer is set
ToolDisableOk ==
    /\ toolPc = "disable"
    /\ disabled' = [disabled EXCEPT ![userId] = TRUE]
    /\ toolPc' = "settle"
    /\ UNCHANGED <<toolCalls, toolFailed, toolError, exitCode, revoked>>
    /\ ToolFrame

\* lines 59-63: the 500 ms timer fires; revokeRefreshTokens(userId)
ToolSettled ==
    /\ toolPc = "settle"
    /\ toolPc' = "revoke"
    /\ toolCalls' = Append(toolCalls, "revoke")
    /\ UNCHANGED <<toolFailed, toolError, exitCode, provVars>>
    /\ ToolFrame

\* lines 63-68: the revoke resolves; updateUser(userId, {disabled: false})
ToolRevokeOk ==
    /\ toolPc = "revoke"
    /\ revoked' = [revoked EXCEPT ![userId] = TRUE]
    /\ toolPc' = "enable"
    /\ toolCalls' = Append(toolCalls, "enable")
    /\ UNCHANGED <<toolFailed, toolError, exitCode, disabled>>
    /\ ToolFrame

\* lines 68-75: the re-enable resolves; getUser(userId)
ToolEnableOk ==
    /\ toolPc = "enable"
    /\ disabled' = [disabled EXCEPT ![userId] = FALSE]
    /\ toolPc' = "verify"
    /\ toolCalls' = Append(toolCalls, "getUser")
    /\ UNCHANGED <<toolFailed, toolError, exitCode, revoked>>
    /\ ToolFrame

\* lines 75-84, 107-109: the verification resolves; process.exit(0)
ToolVerifyOk ==
    /\ toolPc = "verify"
    /\ toolPc' = "exited"
    /\ exitCode' = 0
    /\ UNCHANGED <<toolCalls, toolFailed, toolError, provVars>>
    /\ ToolFrame

\* lines 53-75, 86-93: a step rejects; the catch issues one re-enable
ToolStepFails ==
    /\ toolPc \in ToolSteps
    /\ userId \in faulty
    /\ \E msg \in ErrMsgs : ToolCatch(toolPc, msg)
    /\ UNCHANGED provVars
    /\ ToolFrame

\* lines 93-99: the re-enable of the catch block resolves; process.exit(1)
ToolRecoverOk ==
    /\ toolPc = "recover"
    /\ disabled' = [disabled EXCEPT ![userId] = FALSE]
    /\ toolPc' = "exited"
    /\ exitCode' = 1
    /\ UNCHANGED <<toolCalls, toolFailed, toolError, revoked>>
    /\ ToolFrame

\* the rejected re-enable of the catch block called again
ToolRecoverFailsRetries ==
    /\ toolPc = "recover"
    /\ userId \in faulty
    /\ IF Len(toolCalls) < 8
       THEN /\ toolCalls' = Append(toolCalls, "enable")
            /\ UNCHANGED <<toolPc, exitCode>>
       ELSE /\ toolPc' = "exited"
            /\ exitCode' = 1
            /\ UNCHANGED toolCalls
    /\ UNCHANGED <<toolFailed, toolError, provVars>>
    /\ ToolFrame

\* lines 95-99: the re-enable of the catch block rejects; process.exit(1)
ToolRecoverFails ==
    /\ toolPc = "recover"
    /\ userId \in faulty
    /\ toolPc' = "exited"
    /\ exitCode' = 1
    /\ UNCHANGED <<toolCalls, toolFailed, toolError, provVars>>
    /\ ToolFrame

\* the tool started on one user of a pool of two, each account enabled or
\* disabled before; no batch run
InitTool ==
    /\ immediateLogout = TRUE
    /\ excludedSet = {}
    /\ pages = <<<<userId, userId + 1>>>>
    /\ faulty \in SUBSET {userId}
    /\ wasDisabled \in [PoolUsers -> BOOLEAN]
    /\ pc = "idle"
    /\ logoutEnabled = FALSE
    /\ envSecret = ""
    /\ queryKey = ""
    /\ headerKey = ""
    /\ httpStatus = 0
    /\ toolPc = "start"
    /\ toolCalls = <<>>
    /\ toolFailed = ""
    /\ toolError = ""
    /\ exitCode = -1
    /\ InitRun

NextTool ==
    \/ ToolStart
    \/ ToolLookupOk
    \/ ToolLookupFails
    \/ ToolProceed
    \/ ToolDisableOk
    \/ ToolSettled
    \/ ToolRevokeOk
    \/ ToolEnableOk
    \/ ToolVerifyOk
    \/ ToolStepFails
    \/ ToolRecoverOk
    \/ ToolRecoverFails

SpecTool == InitTool /\ [][NextTool]_vars

SpecPool == InitPool /\ [][Next]_vars

\* one page of two users, each account enabled or disabled before the run
InitPrior ==
    /\ immediateLogout \in BOOLEAN
    /\ pages = <<<<1, 2>>>>
    /\ excludedSet \in {{}, {2}}
    /\ faulty = {1, 2}
    /\ wasDisabled \in [PoolUsers -> BOOLEAN]
    /\ Direct
    /\ InitRun

SpecPrior == InitPrior /\ [][Next]_vars

\* fairness: promise jobs run, timers fire, and every remote call returns
\* (resolved or rejected)
Fairness ==
    /\ WF_vars(ListUsersOk \/ ListUsersFails)
    /\ WF_vars(Kick)
    /\ WF_vars(Return)
    /\ \A u \in 1..MaxUsers :
          /\ WF_vars(TaskNext(u))
          /\ WF_vars(SoftDelayDone(u))
          /\ WF_vars(BackoffDone(u))
          /\ WF_vars(RevokeOk(u) \/ RevokeFails(u))
          /\ WF_vars(UpdateUserOk(u) \/ UpdateUserFails(u))

SpecLive == Init /\ [][Next]_vars /\ Fairness

\* ---------------------------------------------------------------------
\* Properties
\* ---------------------------------------------------------------------
Count(s, x) == Cardinality({i \in 1..Len(s) : s[i] = x})
Executing == {u \in Users : st[u] \in Running \cup {"settled"}}
Submitted == {u \in Users : st[u] # "unseen"}
Finished(u) == st[u] \in {"settled", "done"}
Outcomes == {"success", "failed", "skipped"}
WithOutcome(o) == {u \in Users : outcome[u] = o}
FetchedUsers == UNION {Range(PageOf(fetched[i])) : i \in 1..Len(fetched)}

\* C1: in hard mode, a user whose disable succeeded and whose revoke was
\* rejected has a re-enable call issued by the time it is reported failed,
\* and an account no re-enable call was rejected for is not left disabled.
C1_ReenableAfterRevokeFailure ==
    \A u \in Users :
        (immediateLogout /\ outcome[u] = "failed" /\ Count(rejected[u], "revoke") = 1)
            => /\ Count(issued[u], "enable") >= 1
               /\ (Count(rejected[u], "enable") = 0 => ~disabled[u])

\* C2: the tasks started in the pool and not finished are at most 5 in hard
\* mode and at most 10 in soft mode, in every reachable state.
C2_AtMostNExecuting ==
    Cardinality(Executing) <= (IF immediateLogout THEN 5 ELSE 10)

C2_Witness ==
    /\ ~immediateLogout
    /\ Cardinality(Executing) = 10
    /\ queue # <<>>
    /\ Cardinality(Users) > 10

\* C3: a returned report has total = success + failed + skipped, and total
\* is the number of users of all the pages fetched.
C3_ReportTotals ==
    pc = "returned" =>
        /\ report.total = report.success + report.failed + report.skipped
        /\ report.total = Cardinality(FetchedUsers)

C3_Witness ==
    /\ pc = "returned"
    /\ report.total = MaxUsers
    /\ report.failed >= 1
    /\ report.skipped >= 1

\* C4: an excluded user has no remote call issued for it, its account is
\* untouched, and its outcome, once its function has run, is skipped.
C4_ExcludedSkipped ==
    \A u \in Users \cap excludedSet :
        /\ issued[u] = <<>>
        /\ ~disabled[u] /\ ~revoked[u]
        /\ outcome[u] \in {"none", "skipped"}
        /\ Finished(u) => outcome[u] = "skipped"

C4_Witness ==
    \E u \in Users \cap excludedSet, v \in Users \ excludedSet :
        /\ st[u] = "done" /\ outcome[u] = "skipped"
        /\ st[v] = "done" /\ issued[v] # <<>>

\* the counters agree with the outcomes recorded, one each
CountsMatchOutcomes ==
    /\ successCount = Cardinality(WithOutcome("success"))
    /\ failedCount = Cardinality(WithOutcome("failed"))
    /\ skippedCount = Cardinality(WithOutcome("skipped"))
    /\ Len(errors) = failedCount
    /\ \A u \in Users : outcome[u] \in Outcomes \cup {"none"}

\* C5 as stated: under fairness every submitted user eventually has exactly
\* one outcome recorded, and the run eventually returns its report.
C5_AlwaysReturnsReport ==
    /\ [](CountsMatchOutcomes)
    /\ \A u \in 1..MaxUsers :
          [](u \in Submitted => <>(outcome[u] \in Outcomes))
    /\ <>(pc = "returned")

\* C5 amended: under fairness every submitted user eventually has exactly
\* one outcome recorded, and the run eventually returns its report or, when
\* a page fetch was rejected, fails.
C5_OutcomesAndReportOrThrow ==
    /\ [](CountsMatchOutcomes)
    /\ \A u \in 1..MaxUsers :
          [](u \in Submitted => <>(outcome[u] \in Outcomes))
    /\ <>(pc \in {"returned", "thrown"})
    /\ [](pc = "joining" => <>(pc = "returned"))

C5_Witness ==
    /\ pc = "returned"
    /\ Cardinality(Users) = MaxUsers
    /\ \A u \in Users : outcome[u] \in {"success", "failed"}
    /\ failedCount >= 1 /\ successCount >= 1

\* C6: when the report is returned the last page has been fetched, no task
\* is queued or executing, and the counters and the error list stay as the
\* report has them.
C6_ReportAfterDrain ==
    pc = "returned" =>
        /\ Len(fetched) = Len(pages) /\ nextPageToken = 0
        /\ queue = <<>> /\ kicks = 0 /\ activeCount = 0
        /\ \A u \in Users : st[u] = "done"
        /\ report = [success |-> successCount, failed |-> failedCount,
                     skipped |-> skippedCount, total |-> totalProcessed,
                     errors |-> errors]

C6_Witness ==
    /\ pc = "returned"
    /\ Len(fetched) = 2
    /\ Len(report.errors) >= 1
    /\ report.success >= 1

\* C7: in hard mode a user whose disable call was rejected 3 times is
\* failed, with no further call issued: no revoke and no re-enable.
C7_DisableExhausted ==
    \A u \in Users :
        (immediateLogout /\ Count(rejected[u], "disable") >= 3)
            => /\ outcome[u] = "failed"
               /\ issued[u] = <<"disable", "disable", "disable">>
               /\ ~revoked[u]

C7_Witness ==
    \E u \in Users :
        /\ immediateLogout
        /\ rejected[u] = <<"disable", "disable", "disable">>
        /\ st[u] = "done"

\* C8: in soft mode a user whose revoke is rejected is failed once (one
\* count, one error entry), and no updateUser call is issued for any user.
C8_SoftRevokeFailure ==
    ~immediateLogout =>
        /\ \A u \in Users :
              /\ Count(issued[u], "disable") = 0 /\ Count(issued[u], "enable") = 0
              /\ Len(issued[u]) <= 1
              /\ rejected[u] # <<>> =>
                    /\ rejected[u] = <<"revoke">>
                    /\ outcome[u] = "failed"
                    /\ Cardinality({i \in 1..Len(errors) : errors[i].uid = u}) = 1
        /\ failedCount = Cardinality({u \in Users : rejected[u] # <<>>})
        /\ Len(errors) = failedCount

C8_Witness ==
    /\ ~immediateLogout
    /\ pc = "returned"
    /\ \E u \in Users : rejected[u] = <<"revoke">> /\ u \notin excludedSet
    /\ failedCount = 1

\* C9: a rejected call of one user stops neither the run nor another user:
\* under fairness, once a user is failed every other submitted user still
\* reaches an outcome and the pending join returns the report; the run
\* fails only while pages are still being fetched.
C9_FailureIsolated ==
    /\ \A u, v \in 1..MaxUsers :
          []((u \in Users /\ v \in Submitted /\ outcome[u] = "failed")
                => <>(outcome[v] \in Outcomes))
    /\ []((failedCount > 0 /\ pc = "joining") => <>(pc = "returned"))
    /\ [](pc = "thrown" => Len(fetched) < Len(pages))
    /\ [](pc = "returned" => \A u \in Users : outcome[u] \in Outcomes)

C9_Witness ==
    /\ pc = "returned"
    /\ \E u, v \in Users :
          /\ outcome[u] = "failed" /\ outcome[v] = "success"
          /\ errors[1].uid = u
    /\ report.failed = 1 /\ report.success = 1

Entries(u) == {i \in 1..Len(errors) : errors[i].uid = u}
\* the calls of kind c issued for u that have not come back yet
InFlight(u, c) == Count(issued[u], c) - Count(rejected[u], c) - Count(resolved[u], c)

\* C11: when all 3 attempts of a robustUpdateUser call are rejected, the
\* error that reaches the caller is the error of the third attempt (the
\* recorded message is the third message, whatever the first two were), and
\* once an attempt resolved the operation is not called again: every call
\* of that operation issued is one of the rejected ones or the resolved one.
C11_LastErrorThrown ==
    \A u \in Users :
        /\ Len(messages[u]) = Retries =>
              /\ outcome[u] = "failed"
              /\ Cardinality(Entries(u)) = 1
              /\ \A i \in Entries(u) : errors[i].error = messages[u][Retries]
        /\ \A c \in {"disable", "enable"} :
              /\ Count(resolved[u], c) <= 1
              /\ Count(resolved[u], c) = 1 =>
                    /\ InFlight(u, c) = 0
                    /\ Count(rejected[u], c) < Retries

C11_Witness ==
    \E u \in Users :
        /\ Len(messages[u]) = Retries
        /\ messages[u][1] # messages[u][Retries]
        /\ \E i \in Entries(u) : errors[i].error = messages[u][Retries]
        /\ \E v \in Users :
              /\ resolved[v] = <<"disable", "revoke", "enable">>
              /\ Count(rejected[v], "disable") = 2

\* C12: a rejected page fetch, on the first page or a later one, fails the
\* run with the error listUsers rejected with, and no report is returned:
\* the run is failed exactly when a fetch was rejected, its error is that
\* fetch's error, and a failed run has no report.
C12_FetchFailureFailsRun ==
    /\ pc = "thrown" <=> listError # ""
    /\ pc = "thrown" <=> runError # ""
    /\ pc = "thrown" =>
          /\ runError = listError
          /\ report = <<>>
          /\ Len(fetched) < Len(pages)
    /\ report # <<>> => pc = "returned"

C12_Witness ==
    /\ pc = "thrown"
    /\ Len(fetched) = 1
    /\ listError = "internal error" /\ runError = "internal error"
    /\ \E u \in Users : outcome[u] = "success"

\* users of a hard-mode run whose disable and revoke resolved and whose
\* re-enable was rejected on every attempt
ReenableExhausted ==
    {u \in Users : /\ immediateLogout
                   /\ Count(resolved[u], "disable") = 1
                   /\ Count(resolved[u], "revoke") = 1
                   /\ Count(rejected[u], "enable") = Retries}
\* users failed by a rejected disable or a rejected revoke
OrdinaryFailed ==
    {u \in Users : outcome[u] = "failed" /\ Count(rejected[u], "enable") = 0}

\* C13: in hard mode a user whose disable and revoke resolved and whose
\* re-enable was rejected 3 times is reported failed with the tokens
\* revoked and the account disabled, and the error recorded for it differs
\* from the error recorded for any user failed by a rejected disable or a
\* rejected revoke.
C13_ReenableFailureDistinct ==
    \A u \in ReenableExhausted :
        /\ outcome[u] = "failed" /\ revoked[u] /\ disabled[u]
        /\ \A v \in OrdinaryFailed :
              \A i \in Entries(u), j \in Entries(v) : errors[i].error # errors[j].error

\* the original statement of C14: a run is started only with the flag on and
\* a key equal to the configured secret; flag off answers 403; flag on and
\* a different key answers 401 and starts no run
C14_RunOnlyWithMatchingKey ==
    /\ pc # "idle" => logoutEnabled /\ providedKey = API_SECRET
    /\ (httpStatus # 0 /\ ~logoutEnabled) => httpStatus = 403
    /\ (httpStatus # 0 /\ logoutEnabled /\ providedKey # API_SECRET) =>
          httpStatus = 401 /\ pc = "idle"

\* C14: the endpoint starts a run only with the flag on and the key
\* accepted, where the key is checked only if the configured secret is not
\* the default 'changeme': flag off answers 403 whatever the key; flag on,
\* a secret other than 'changeme' and a different key answers 401; a 403 or
\* a 401 starts no run; with the default secret any key starts the run.
C14_RunOnlyWhenEnabledAndKeyAccepted ==
    /\ pc # "idle" =>
          /\ logoutEnabled
          /\ API_SECRET = "changeme" \/ providedKey = API_SECRET
    /\ (httpStatus # 0 /\ ~logoutEnabled) => httpStatus = 403
    /\ (httpStatus # 0 /\ logoutEnabled /\ API_SECRET # "changeme"
          /\ providedKey # API_SECRET) => httpStatus = 401
    /\ httpStatus \in {401, 403} =>
          /\ pc = "idle" /\ fetched = <<>> /\ totalProcessed = 0
          /\ \A u \in Users : issued[u] = <<>>
    /\ (httpStatus # 0 /\ logoutEnabled /\ API_SECRET = "changeme") =>
          httpStatus \in {200, 500}
    /\ httpStatus = 200 <=> (pc = "returned" /\ httpStatus # 0)
    /\ httpStatus = 500 <=> (pc = "thrown" /\ httpStatus # 0)

C14_Witness ==
    /\ logoutEnabled
    /\ API_SECRET = "s3cret"
    /\ queryKey = "" /\ headerKey = "wrong"
    /\ httpStatus = 401
    /\ pc = "idle"

StepOf(c) == CASE c = "disable" -> 1 [] c = "revoke" -> 2 [] c = "enable" -> 3
\* remote calls of u issued and not yet resolved or rejected
Pending(u) == Len(issued[u]) - Len(rejected[u]) - Len(resolved[u])

\* C16: in hard mode the remote calls of one user are issued one at a time
\* in the order disable, revoke, re-enable: at most one call of a user is
\* pending, a revoke is issued only once a disable attempt has resolved, and
\* a re-enable only once the revoke has resolved.
C16_HardSequential ==
    immediateLogout =>
        \A u \in Users :
            /\ Pending(u) \in {0, 1}
            /\ Pending(u) = 1 <=> st[u] \in {"disable", "revoke", "enable"}
            /\ \A i, j \in 1..Len(issued[u]) :
                  i < j => StepOf(issued[u][i]) <= StepOf(issued[u][j])
            /\ Count(issued[u], "revoke") > 0 =>
                  /\ Count(resolved[u], "disable") = 1
                  /\ InFlight(u, "disable") = 0
            /\ Count(issued[u], "enable") > 0 =>
                  /\ Count(resolved[u], "revoke") = 1
                  /\ Count(rejected[u], "revoke") = 0
                  /\ InFlight(u, "revoke") = 0

C16_Witness ==
    /\ immediateLogout
    /\ \E u \in Users :
          /\ issued[u] = <<"disable", "disable", "revoke", "enable", "enable">>
          /\ resolved[u] = <<"disable", "revoke">>
          /\ rejected[u] = <<"disable", "enable">>
          /\ st[u] = "enable"
    /\ \E v \in Users : st[v] = "revoke"

\* C17: the loop never waits for tasks: while a fetch is pending its
\* response is taken up as soon as no promise job is left, whatever is
\* queued or executing; every user of a fetched page has been handed to
\* limit(), more users than free slots included, and the users not started
\* wait in the pool's queue, not in the loop.
C17_DriverNeverWaits ==
    /\ (pc = "listing" /\ Quiescent) => ENABLED ListUsersOk
    /\ \A u \in FetchedUsers : st[u] # "unseen"
    /\ \A u \in Users : st[u] = "queued" =>
          \/ u \in Range(queue)
          \/ kicks > 0
    /\ (pc = "listing" /\ fetched # <<>>) => nextPageToken = Len(fetched)

C17_Witness ==
    /\ Len(fetched) = 2
    /\ activeCount = concurrency
    /\ queue # <<>>
    /\ \A u \in Range(PageOf(fetched[1])) : ~Finished(u)
    /\ \A u \in Range(PageOf(fetched[2])) : st[u] = "queued"

\* C18: in both modes revokeRefreshTokens is called at most once for a
\* user: a rejected revoke is the last remote call issued for the user, who
\* is failed at once with one error entry.
C18_RevokeOnce ==
    \A u \in Users :
        /\ Count(issued[u], "revoke") <= 1
        /\ Count(rejected[u], "revoke") = 1 =>
              /\ outcome[u] = "failed"
              /\ Finished(u)
              /\ issued[u][Len(issued[u])] = "revoke"
              /\ Cardinality(Entries(u)) = 1
              /\ ~revoked[u]

C18_Witness ==
    /\ pc = "returned"
    /\ immediateLogout
    /\ \E u \in Users :
          /\ issued[u] = <<"disable", "revoke">>
          /\ rejected[u] = <<"revoke">>
          /\ outcome[u] = "failed"
    /\ report.failed = 1

\* C19: pages are fetched in order, each once, with the token the previous
\* page carried (none for the first); the loop goes on while the page just
\* fetched carried a token, an empty page included, and is left after the
\* first page without one, so that a run that joins or returns has fetched
\* every page; only a rejected fetch fails the run.
C19_PagingFollowsTokens ==
    /\ \A i \in 1..Len(fetched) : fetched[i] = i - 1
    /\ Len(fetched) <= Len(pages)
    /\ pc = "listing" => (nextPageToken = Len(fetched) /\ Len(fetched) < Len(pages))
    /\ pc \in {"joining", "returned"} =>
          /\ Len(fetched) = Len(pages)
          /\ nextPageToken = 0
          /\ FetchedUsers = PoolUsers
    /\ \A i \in 1..Len(fetched) :
          (i < Len(fetched) \/ pc = "listing") => TokenAfter(fetched[i]) # 0
    /\ pc = "thrown" => listError # ""

C19_Witness ==
    /\ pages = <<<<>>, <<1, 2>>>>
    /\ fetched = <<0, 1>>
    /\ pc = "returned"
    /\ report.total = 2

\* 1 if the outcome of u changes to o in the step, else 0
Gains(u, o) == IF outcome[u] # o /\ outcome'[u] = o THEN 1 ELSE 0

\* C20: a step gives at most one user an outcome, once, and adds one to the
\* counter of that outcome and to no other, whatever else is executing;
\* a step that gives no outcome leaves the counters and the error list
\* alone.  In every state the error list has failedCount entries, one for
\* each failed user and none for another, and the three counters add up to
\* the number of users with an outcome.
C20_OneCounterPerOutcome ==
    /\ [][/\ Cardinality({u \in Users : outcome'[u] # outcome[u]}) <= 1
          /\ \A u \in Users :
                outcome'[u] # outcome[u] =>
                    /\ outcome[u] = "none"
                    /\ successCount' = successCount + Gains(u, "success")
                    /\ failedCount' = failedCount + Gains(u, "failed")
                    /\ skippedCount' = skippedCount + Gains(u, "skipped")
                    /\ Len(errors') = Len(errors) + Gains(u, "failed")
          /\ (\A u \in Users : outcome'[u] = outcome[u]) =>
                UNCHANGED <<successCount, failedCount, skippedCount, errors>>]_vars
    /\ [](/\ Len(errors) = failedCount
          /\ \A u \in Users :
                Cardinality(Entries(u)) = IF outcome[u] = "failed" THEN 1 ELSE 0
          /\ \A i \in 1..Len(errors) : errors[i].uid \in Users
          /\ successCount + failedCount + skippedCount
                = Cardinality({u \in Users : outcome[u] \in Outcomes}))

C20_Witness ==
    \E u, v \in Users :
        /\ u # v
        /\ outcome[u] = "success" /\ Finished(u)
        /\ outcome[v] = "failed" /\ st[v] = "settled"
        /\ activeCount = 1
        /\ successCount = 1 /\ failedCount = 1 /\ Len(errors) = 1

\* C21: a rejected page fetch fails the run whatever is queued or
\* executing, and the failed run cancels nothing: every user handed to
\* limit() and without an outcome is still queued or executing, and with the
\* run failed its next response or timer is still taken up, issuing the next
\* remote call (revoke after disable, the retry after a backoff, the revoke
\* after the 100 ms delay) and adding to successCount when the sequence
\* ends; the failure, once reported, stays and no report follows.
C21_FailedRunLeavesTasksRunning ==
    /\ []((pc = "listing" /\ Quiescent) => ENABLED ListUsersFails)
    /\ [](pc = "thrown" =>
            \A u \in Users :
                (st[u] # "unseen" /\ outcome[u] = "none") =>
                    st[u] \in Running \cup {"queued"})
    /\ []((pc = "thrown" /\ Quiescent) =>
            \A u \in Users :
                /\ st[u] = "disable" =>
                      ENABLED (UpdateUserOk(u)
                                 /\ issued'[u] = Append(issued[u], "revoke"))
                /\ st[u] = "enable" =>
                      ENABLED (UpdateUserOk(u) /\ successCount' = successCount + 1)
                /\ st[u] = "revoke" =>
                      ENABLED (RevokeOk(u) /\ Len(issued'[u]) + successCount'
                                               = Len(issued[u]) + successCount + 1)
                /\ st[u] \in {"disableWait", "enableWait"} =>
                      ENABLED (BackoffDone(u) /\ Len(issued'[u]) = Len(issued[u]) + 1)
                /\ (st[u] = "delay" /\ u = Head(timers)) =>
                      ENABLED (SoftDelayDone(u)
                                 /\ issued'[u] = Append(issued[u], "revoke")))
    /\ [][pc = "thrown" =>
            /\ pc' = "thrown" /\ report' = <<>> /\ runError' = runError
            /\ \A u \in Users : st[u] # "unseen" => st'[u] # "unseen"]_vars

C21_Witness ==
    /\ pc = "thrown"
    /\ Len(fetched) = 1
    /\ Quiescent
    /\ \E u, v \in Users :
          /\ st[u] = "disable" /\ issued[u] = <<"disable">>
          /\ st[v] = "enable"
    /\ successCount = 0 /\ failedCount = 0

\* C22: in hard mode a user whose sequence ended in success has the
\* disabled flag false, whatever the flag was before the run; the flag of a
\* user no updateUser call resolved for (excluded users, and every user in
\* soft mode) is the one it had before the run.
C22_SuccessLeavesEnabled ==
    \A u \in Users :
        /\ (immediateLogout /\ outcome[u] = "success") => ~disabled[u]
        /\ (Count(resolved[u], "disable") = 0 /\ Count(resolved[u], "enable") = 0)
              => disabled[u] = wasDisabled[u]
        /\ (~immediateLogout \/ u \in excludedSet) => disabled[u] = wasDisabled[u]

C22_Witness ==
    /\ pc = "returned"
    /\ immediateLogout
    /\ \E u \in Users :
          /\ wasDisabled[u]
          /\ outcome[u] = "success"
          /\ resolved[u] = <<"disable", "revoke", "enable">>
          /\ ~disabled[u]

\* the calls the tool has issued when the step fails
ToolCallsUpTo(step) ==
    CASE step = "init" -> <<>>
      [] step = "lookup" -> <<"getUser">>
      [] step = "disable" -> <<"getUser", "disable">>
      [] step = "revoke" -> <<"getUser", "disable", "revoke">>
      [] step = "enable" -> <<"getUser", "disable", "revoke", "enable">>
      [] step = "verify" -> <<"getUser", "disable", "revoke", "enable", "getUser">>

\* C23: in immediateLogout.js a rejected disable, revoke, re-enable or
\* verification is followed by exactly one more updateUser(userId,
\* {disabled: false}) call, the last call the tool issues, and the process
\* exits with code 1 whether that call resolves or rejects; a rejected
\* lookup exits with code 1 with getUser the only call issued and the
\* account untouched; the process exits with code 0 only if no step failed.
C23_ToolRecoversOnce ==
    /\ toolFailed \in ToolSteps =>
          /\ toolCalls = ToolCallsUpTo(toolFailed) \o <<"enable">>
          /\ toolPc \in {"recover", "exited"}
          /\ toolPc = "exited" => exitCode = 1
    /\ toolFailed = "lookup" =>
          /\ toolCalls = <<"getUser">>
          /\ toolPc = "exited" /\ exitCode = 1
          /\ disabled = wasDisabled /\ ~revoked[userId]
    /\ toolPc = "exited" <=> exitCode # -1
    /\ exitCode = 0 =>
          /\ toolFailed = ""
          /\ toolCalls = ToolCallsUpTo("verify")
    /\ \A u \in Users \ {userId} : disabled[u] = wasDisabled[u] /\ ~revoked[u]

C23_Witness ==
    /\ toolPc = "exited"
    /\ exitCode = 1
    /\ toolFailed = "revoke"
    /\ toolCalls = <<"getUser", "disable", "revoke", "enable">>
    /\ disabled[userId] /\ ~wasDisabled[userId]

====
